---- MODULE Spec2Model ----
(***************************************************************************)
(* Loot generation engine of the DND 3.5 loot generator: pricing, rarity    *)
(* classification, item pool construction, the generation loop of           *)
(* generateLoot and the single-slot regeneration of rerollItem.             *)
(*                                                                          *)
(* Every Math.random() draw of the code is a nondeterministic choice: an    *)
(* operator that draws returns the set of the values the draw can yield.    *)
(* A function that returns "T | null" returns a sequence of length <= 1.    *)
(* Sequences are 1-based: slot i of the code is index i + 1 here.           *)
(* An item's id stands for the identity of its object: generateId() never   *)
(* returns the same id twice.                                               *)
(***************************************************************************)
EXTENDS Integers, Sequences, FiniteSets, TLC

\* JavaScript null of a nullable number (cost, bonus_value, flat_cost).
NULL == -1

\* JavaScript Infinity, the upper end of the legendary band.
Infinity == 2000000000

\* Bounds of the model.
MaxItems == 2
MaxRerolls == 2
LongList == 3
\* the costs and the budgets (in thousands) handed to the library functions
MaxCost == 10100
MaxThousands == 170

Min(a, b) == IF a <= b THEN a ELSE b

(***************************************************************************)
(* rarity.ts                                                                *)
(***************************************************************************)
RARITY_THRESHOLDS ==
  [ common    |-> [min |-> 0,     max |-> 100],
    uncommon  |-> [min |-> 101,   max |-> 500],
    rare      |-> [min |-> 501,   max |-> 2000],
    very_rare |-> [min |-> 2001,  max |-> 10000],
    legendary |-> [min |-> 10001, max |-> Infinity] ]

Rarities == {"common", "uncommon", "rare", "very_rare", "legendary"}

\* Fault variant: the upper end of a band is taken as exclusive.
getRarityFromCost_ExclusiveMax(cost) ==
  IF cost < RARITY_THRESHOLDS.common.max THEN "common"
  ELSE IF cost < RARITY_THRESHOLDS.uncommon.max THEN "uncommon"
  ELSE IF cost < RARITY_THRESHOLDS.rare.max THEN "rare"
  ELSE IF cost < RARITY_THRESHOLDS.very_rare.max THEN "very_rare"
  ELSE "legendary"

getRarityFromCost(cost) ==
  IF cost <= RARITY_THRESHOLDS.common.max THEN "common"
  ELSE IF cost <= RARITY_THRESHOLDS.uncommon.max THEN "uncommon"
  ELSE IF cost <= RARITY_THRESHOLDS.rare.max THEN "rare"
  ELSE IF cost <= RARITY_THRESHOLDS.very_rare.max THEN "very_rare"
  ELSE "legendary"

\* allowedRarities.includes(rarity)
Includes(seq, x) == \E k \in 1..Len(seq) : seq[k] = x

\* Fault variant: the rarity filter is not applied.
filterByRarity_Unfiltered(its, allowedRarities) == its

filterByRarity(its, allowedRarities) ==
  IF Len(allowedRarities) = 0 THEN its
  ELSE LET Keep(item) == /\ item.cost # NULL
                         /\ Includes(allowedRarities, getRarityFromCost(item.cost))
       IN  SelectSeq(its, Keep)

isWithinRarityRange(cost, rarity) ==
  LET min == RARITY_THRESHOLDS[rarity].min
      max == RARITY_THRESHOLDS[rarity].max
  IN  cost >= min /\ cost <= max

\* weights.map(...): the weight of each surviving tier, Math.max(range, 1)
RarityWeights(validRarities, maxBudget) ==
  [ i \in 1..Len(validRarities) |->
      LET min == RARITY_THRESHOLDS[validRarities[i]].min
          max == RARITY_THRESHOLDS[validRarities[i]].max
          effectiveMax == IF max <= maxBudget THEN max ELSE maxBudget
          range == effectiveMax - min
      IN  IF range >= 1 THEN range ELSE 1 ]

RECURSIVE SumWeights(_)
\* weights.reduce((a, b) => a + b, 0)
SumWeights(weights) ==
  IF weights = <<>> THEN 0 ELSE Head(weights) + SumWeights(Tail(weights))

\* The rolls Math.random() * totalWeight can give, in half units (the weights
\* are integers here).  The walk of lines 166-169 compares the roll with the
\* partial sums of the weights only, so every real of [0, totalWeight) falls
\* like 0, like a partial sum, or like the half unit below or above one.
HalfRolls(weights) ==
  LET totalWeight == SumWeights(weights)
      partialSums == { SumWeights(SubSeq(weights, 1, i)) : i \in 1..Len(weights) }
  IN  { halfRoll \in {0} \cup UNION { { 2 * ps - 1, 2 * ps, 2 * ps + 1 } :
                                        ps \in partialSums } :
          halfRoll >= 0 /\ halfRoll < 2 * totalWeight }

RECURSIVE RarityWalk(_, _, _, _)
\* lines 166-171: "roll -= weights[i]; if (roll <= 0) return validRarities[i]"
\* and the return of the last tier after the loop
RarityWalk(validRarities, weights, halfRoll, i) ==
  IF i > Len(validRarities) THEN validRarities[Len(validRarities)]
  ELSE IF halfRoll - 2 * weights[i] <= 0 THEN validRarities[i]
  ELSE RarityWalk(validRarities, weights, halfRoll - 2 * weights[i], i + 1)

\* Fault variant: the tiers are not restricted to those the budget reaches.
getRandomRarityForBudget_NoBudgetFilter(maxBudget, allowedRarities) ==
  LET validRarities == allowedRarities
      weights == RarityWeights(validRarities, maxBudget)
  IN  IF Len(validRarities) = 0 THEN { "common" }
      ELSE { RarityWalk(validRarities, weights, halfRoll, 1) :
             halfRoll \in HalfRolls(weights) }

\* The set of the tiers getRandomRarityForBudget can return.
getRandomRarityForBudget(maxBudget, allowedRarities) ==
  LET Fits(rarity) == RARITY_THRESHOLDS[rarity].min <= maxBudget
      validRarities == SelectSeq(allowedRarities, Fits)
      weights == RarityWeights(validRarities, maxBudget)
  IN  IF Len(validRarities) = 0 THEN { "common" }
      ELSE { RarityWalk(validRarities, weights, halfRoll, 1) :
             halfRoll \in HalfRolls(weights) }

(***************************************************************************)
(* dataset.ts                                                               *)
(***************************************************************************)
getGenerateCategoryItems(ds, category) ==
  IF category = "mundane_weapons" THEN ds.items.mundane_weapons
  ELSE IF category = "mundane_armor" THEN ds.items.mundane_armor
  ELSE IF category = "mundane_items" THEN ds.items.mundane_items
  ELSE <<>>

getPremadeCategoryItems(ds, category) ==
  IF category = "magic_weapons" THEN ds.items.magic_weapons
  ELSE IF category = "magic_items" THEN ds.items.magic_items
  ELSE IF category = "magic_apparel" THEN ds.items.magic_apparel
  ELSE <<>>

filterByMaxCost(its, maxCost) ==
  LET Keep(item) == item.cost # NULL /\ item.cost <= maxCost
  IN  SelectSeq(its, Keep)

filterWithValidCost(its) ==
  LET Keep(item) == item.cost # NULL /\ item.cost > 0
  IN  SelectSeq(its, Keep)

getQualitiesForType(ds, qualityType) == ds.qualities.by_type[qualityType]

getQualitiesForWeapon(ds, weapon) ==
  IF weapon.attack_type = "Melee"
  THEN getQualitiesForType(ds, "melee_weapon")
  ELSE getQualitiesForType(ds, "ranged_weapon")

getQualitiesForArmor(ds, armor) ==
  IF armor.category = "Shields"
  THEN getQualitiesForType(ds, "shield")
  ELSE getQualitiesForType(ds, "apparel")

isWeapon(item) == item.type = "Mundane Weapon"
isArmor(item) == item.type = "Mundane Armor"
isMundaneItem(item) == item.type = "Mundane Item"
\* Fault variant: every base item can be enhanced, plain mundane items too.
canBeEnhanced_Always(item) == TRUE

canBeEnhanced(item) == isWeapon(item) \/ isArmor(item)

(***************************************************************************)
(* pricing.ts                                                               *)
(***************************************************************************)
ENHANCEMENT_BASE_COST == 2000

calculateEnhancementCost(bonus) ==
  IF bonus <= 0 THEN 0 ELSE bonus * bonus * ENHANCEMENT_BASE_COST

RECURSIVE MaxAffordableFrom(_, _)
\* the descending scan "for (let bonus = 9; bonus >= 0; bonus--)"
MaxAffordableFrom(bonus, budget) ==
  IF bonus < 0 THEN 0
  ELSE IF calculateEnhancementCost(bonus) <= budget THEN bonus
  ELSE MaxAffordableFrom(bonus - 1, budget)

\* Fault variant: the scan starts at bonus 10.
getMaxAffordableBonus_From10(budget) == MaxAffordableFrom(10, budget)

getMaxAffordableBonus(budget) == MaxAffordableFrom(9, budget)

\* quality.is_bonus && quality.bonus_value !== null
IsBonusQuality(quality) == quality.is_bonus /\ quality.bonus_value # NULL

\* Fault variant: a bonus-equivalent quality is priced as an enhancement of its
\* own bonus value, whatever the item's current bonus.
calculateQualityCost_Absolute(quality, currentEnhancementBonus) ==
  IF IsBonusQuality(quality)
  THEN calculateEnhancementCost(quality.bonus_value)
  ELSE IF quality.flat_cost # NULL THEN quality.flat_cost
  ELSE 0

calculateQualityCost(quality, currentEnhancementBonus) ==
  IF IsBonusQuality(quality)
  THEN calculateEnhancementCost(currentEnhancementBonus + quality.bonus_value)
       - calculateEnhancementCost(currentEnhancementBonus)
  ELSE IF quality.flat_cost # NULL THEN quality.flat_cost
  ELSE 0

RECURSIVE calculateEffectiveBonus(_, _)
calculateEffectiveBonus(baseBonus, qualities) ==
  IF qualities = <<>> THEN baseBonus
  ELSE calculateEffectiveBonus(
         IF IsBonusQuality(Head(qualities))
         THEN baseBonus + Head(qualities).bonus_value ELSE baseBonus,
         Tail(qualities))

RECURSIVE calculateTotalFlatCosts(_)
calculateTotalFlatCosts(qualities) ==
  IF qualities = <<>> THEN 0
  ELSE (IF ~Head(qualities).is_bonus /\ Head(qualities).flat_cost # NULL
        THEN Head(qualities).flat_cost ELSE 0)
       + calculateTotalFlatCosts(Tail(qualities))

\* "baseItem.cost || 0": null and 0 both give 0
CostOrZero(cost) == IF cost = NULL THEN 0 ELSE cost

calculateTotalItemCost(baseItem, enhancementBonus, qualities) ==
  LET baseCost == CostOrZero(baseItem.cost)
      enhancementCost ==
        IF isWeapon(baseItem) \/ isArmor(baseItem)
        THEN calculateEnhancementCost(
               calculateEffectiveBonus(enhancementBonus, qualities))
        ELSE 0
      flatCosts == calculateTotalFlatCosts(qualities)
  IN  baseCost + enhancementCost + flatCosts

MASTERWORK_COSTS == [weapon |-> 300, armor |-> 150, shield |-> 150]

getMasterworkCost(item) ==
  IF isWeapon(item) THEN MASTERWORK_COSTS.weapon
  ELSE IF isArmor(item)
       THEN IF item.category = "Shields" THEN MASTERWORK_COSTS.shield
            ELSE MASTERWORK_COSTS.armor
  ELSE 0

\* Fault variant: the surcharge is added whether or not the item is enhanced.
calculateTotalWithMasterwork_Always(baseItem, enhancementBonus, qualities) ==
  LET total == calculateTotalItemCost(baseItem, enhancementBonus, qualities)
  IN  IF isWeapon(baseItem) \/ isArmor(baseItem)
      THEN total + getMasterworkCost(baseItem)
      ELSE total

calculateTotalWithMasterwork(baseItem, enhancementBonus, qualities) ==
  LET total == calculateTotalItemCost(baseItem, enhancementBonus, qualities)
  IN  IF enhancementBonus > 0 /\ (isWeapon(baseItem) \/ isArmor(baseItem))
      THEN total + getMasterworkCost(baseItem)
      ELSE total

(***************************************************************************)
(* The catalog (types.ts Dataset) and the configurations (GeneratorConfig)  *)
(***************************************************************************)
BaseItem(name, cost, type, category, attack_type) ==
  [name |-> name, cost |-> cost, type |-> type, category |-> category,
   attack_type |-> attack_type]

PremadeRecord(name, cost, type) == [name |-> name, cost |-> cost, type |-> type]

Quality(name, is_bonus, bonus_value, flat_cost) ==
  [name |-> name, is_bonus |-> is_bonus, bonus_value |-> bonus_value,
   flat_cost |-> flat_cost]

\* A catalog with a priceless (null cost) weapon, a zero-cost mundane item, a
\* zero-cost premade item, a shield and a body armor, bonus-equivalent and
\* flat-cost qualities.
Catalog ==
  [ items |->
      [ mundane_weapons |->
          << BaseItem("Dagger", 2, "Mundane Weapon", "Simple", "Melee"),
             BaseItem("Relic Blade", NULL, "Mundane Weapon", "Martial", "Melee") >>,
        mundane_armor |->
          << BaseItem("Buckler", 15, "Mundane Armor", "Shields", "n/a"),
             BaseItem("Chain Shirt", 100, "Mundane Armor", "Light armor", "n/a") >>,
        mundane_items |->
          << BaseItem("Rope", 1, "Mundane Item", "Gear", "n/a"),
             BaseItem("Pebble", 0, "Mundane Item", "Gear", "n/a") >>,
        magic_weapons |-> << PremadeRecord("Flame Tongue", 20715, "Magic Weapon") >>,
        magic_items |->
          << PremadeRecord("Worn Token", 0, "Wondrous Item"),
             PremadeRecord("Pearl of Power", 1000, "Wondrous Item") >>,
        magic_apparel |-> << PremadeRecord("Boots of Speed", 2500, "Magic Apparel") >> ],
    qualities |->
      [ by_type |->
          [ melee_weapon  |-> << Quality("Flaming", TRUE, 1, NULL),
                                 Quality("Vorpal", TRUE, 5, NULL) >>,
            ranged_weapon |-> << Quality("Distance", TRUE, 1, NULL) >>,
            shield        |-> << Quality("Arrow Catching", TRUE, 1, NULL) >>,
            apparel       |-> << Quality("Glamered", FALSE, NULL, 2700),
                                 Quality("Light Fortification", TRUE, 1, NULL) >> ] ] ]

GenerateCategories == {"mundane_weapons", "mundane_armor", "mundane_items"}
PremadeCategories == {"magic_items", "magic_weapons", "magic_apparel"}

\* itemCountRange: 1 <= min <= max (GeneratorControls.tsx keeps it so)
ItemCountRanges == { <<1, MaxItems>>, <<MaxItems, MaxItems>> }

Config(maxCoinValue, itemCountRange, generateCategories, includePremade, rarityFilter, maxMagicAttributes, maxEnhancementBonus) ==
  [ maxCoinValue |-> maxCoinValue, itemCountRange |-> itemCountRange,
    generateCategories |-> generateCategories, includePremade |-> includePremade,
    rarityFilter |-> rarityFilter, maxMagicAttributes |-> maxMagicAttributes,
    maxEnhancementBonus |-> maxEnhancementBonus ]

\* The arrays formStateToConfig builds keep the order of the form's fields.
GenerateChoices ==
  { <<>>, <<"mundane_weapons">>,
    <<"mundane_weapons", "mundane_armor", "mundane_items">> }
PremadeChoices ==
  { <<>>, <<"magic_items">>, <<"magic_items", "magic_weapons", "magic_apparel">> }
RarityChoices == { <<>>, <<"common">>, <<"very_rare">>, <<"legendary">> }

\* Budgets up to 5000 gp, where at most a +1 enhancement is affordable; no
\* rarity filter.
ModestConfigs ==
  { Config(b, r, g, p, <<>>, c[1], c[2]) :
      b \in {0, 2000, 2100, 5000}, r \in ItemCountRanges, g \in GenerateChoices,
      p \in PremadeChoices, c \in { <<0, 0>>, <<0, 1>>, <<1, 1>> } }

\* A rarity filter, with the budget of 5000 gp.
FilteredConfigs ==
  { Config(5000, r, g, p, f, 1, 1) :
      r \in ItemCountRanges, g \in GenerateChoices, p \in PremadeChoices,
      f \in RarityChoices \ { <<>> } }

\* A list of LongList items drawn from two categories of cheap entries.
LongConfigs ==
  { Config(b, <<LongList, LongList>>, <<"mundane_items">>, <<"magic_items">>,
           <<>>, 0, 0) : b \in {1000, 2000} }

\* A budget that pays for an effective bonus of 11, one item drawn.
RichConfigs ==
  { Config(250000, <<1, 1>>, g, p, <<>>, q, 6) :
      g \in GenerateChoices, p \in PremadeChoices, q \in {1, 2} }

\* A budget that one or two armors use up to the last coin but one: every
\* later draw finds nothing affordable.
ScarceConfigs ==
  { Config(b, <<MaxItems, MaxItems>>, <<"mundane_armor">>, <<>>, <<>>, 0, 0) :
      b \in {16, 101} }

\* A budget one coin above the cost of an enhanced dagger, weapons and armor
\* only: after an enhanced shield and a dagger, rerolls can leave an enhanced
\* dagger whose cost leaves the other slot a budget of 1, below every cost.
TightConfigs ==
  { Config(2303, <<MaxItems, MaxItems>>, <<"mundane_weapons", "mundane_armor">>, <<>>, <<>>, 0, 1) }

Configs ==
  ModestConfigs \cup FilteredConfigs \cup LongConfigs \cup RichConfigs
    \cup ScarceConfigs \cup TightConfigs

(***************************************************************************)
(* generator.ts                                                             *)
(***************************************************************************)
\* randomInt(min, max): every integer of [min, max] can be drawn
randomInt(min, max) == min..max

\* shuffleArray returns a copy in any order (Fisher-Yates reaches them all)
shuffleArray(array) ==
  { [k \in 1..Len(array) |-> array[p[k]]] : p \in Permutations(1..Len(array)) }

RECURSIVE SumLengths(_)
\* reduce((sum, g) => sum + g.items.length, 0)
SumLengths(entries) ==
  IF entries = <<>> THEN 0
  ELSE Len(Head(entries).items) + SumLengths(Tail(entries))

RECURSIVE GeneratePools(_, _, _, _)
\* the loop over config.generateCategories
GeneratePools(ds, categories, rarityFilter, maxCost) ==
  IF categories = <<>> THEN <<>>
  ELSE LET category == Head(categories)
           its == filterByRarity(
                    filterByMaxCost(
                      filterWithValidCost(getGenerateCategoryItems(ds, category)),
                      maxCost),
                    rarityFilter)
           rest == GeneratePools(ds, Tail(categories), rarityFilter, maxCost)
       IN  IF Len(its) > 0
           THEN <<[category |-> category, items |-> its]>> \o rest
           ELSE rest

RECURSIVE PremadePools(_, _, _, _)
\* the loop over config.includePremade
PremadePools(ds, categories, rarityFilter, maxCost) ==
  IF categories = <<>> THEN <<>>
  ELSE LET category == Head(categories)
           its == filterByRarity(
                    filterByMaxCost(getPremadeCategoryItems(ds, category), maxCost),
                    rarityFilter)
           rest == PremadePools(ds, Tail(categories), rarityFilter, maxCost)
       IN  IF Len(its) > 0
           THEN <<[category |-> category, items |-> its]>> \o rest
           ELSE rest

\* Fault variant: the pools are built from every category of the catalog,
\* whatever the configuration enables.
buildItemPool_AllCategories(ds, cfg, maxCost) ==
  LET generateItems ==
        GeneratePools(ds, <<"mundane_weapons", "mundane_armor", "mundane_items">>,
                      cfg.rarityFilter, maxCost)
      premadeItems ==
        PremadePools(ds, <<"magic_items", "magic_weapons", "magic_apparel">>,
                     cfg.rarityFilter, maxCost)
  IN  [ generateItems |-> generateItems,
        premadeItems |-> premadeItems,
        totalGenerateCount |-> SumLengths(generateItems),
        totalPremadeCount |-> SumLengths(premadeItems) ]

buildItemPool(ds, cfg, maxCost) ==
  LET generateItems ==
        GeneratePools(ds, cfg.generateCategories, cfg.rarityFilter, maxCost)
      premadeItems ==
        PremadePools(ds, cfg.includePremade, cfg.rarityFilter, maxCost)
  IN  [ generateItems |-> generateItems,
        premadeItems |-> premadeItems,
        totalGenerateCount |-> SumLengths(generateItems),
        totalPremadeCount |-> SumLengths(premadeItems) ]

MAX_EFFECTIVE_BONUS == 10

RECURSIVE SelectLoop_NoCap(_, _, _, _, _)
\* Fault variant: the greedy loop without the effective-bonus limit.
SelectLoop_NoCap(qualities, selectedQualities, currentBudget, currentEffectiveBonus, maxQualities) ==
  IF qualities = <<>> \/ Len(selectedQualities) >= maxQualities
  THEN selectedQualities
  ELSE LET quality == Head(qualities)
           cost == calculateQualityCost(quality, currentEffectiveBonus)
       IN  IF cost <= currentBudget
           THEN SelectLoop_NoCap(Tail(qualities), Append(selectedQualities, quality),
                                 currentBudget - cost,
                                 IF IsBonusQuality(quality)
                                 THEN currentEffectiveBonus + quality.bonus_value
                                 ELSE currentEffectiveBonus,
                                 maxQualities)
           ELSE SelectLoop_NoCap(Tail(qualities), selectedQualities, currentBudget,
                                 currentEffectiveBonus, maxQualities)

RECURSIVE SelectLoop(_, _, _, _, _)
\* the greedy loop of selectQualities over the shuffled qualities
SelectLoop(qualities, selectedQualities, currentBudget, currentEffectiveBonus, maxQualities) ==
  IF qualities = <<>> \/ Len(selectedQualities) >= maxQualities
  THEN selectedQualities
  ELSE LET quality == Head(qualities)
           cost == calculateQualityCost(quality, currentEffectiveBonus)
       IN  IF IsBonusQuality(quality)
              /\ currentEffectiveBonus + quality.bonus_value > MAX_EFFECTIVE_BONUS
           THEN SelectLoop(Tail(qualities), selectedQualities, currentBudget,
                           currentEffectiveBonus, maxQualities)
           ELSE IF cost <= currentBudget
           THEN SelectLoop(Tail(qualities), Append(selectedQualities, quality),
                           currentBudget - cost,
                           IF IsBonusQuality(quality)
                           THEN currentEffectiveBonus + quality.bonus_value
                           ELSE currentEffectiveBonus,
                           maxQualities)
           ELSE SelectLoop(Tail(qualities), selectedQualities, currentBudget,
                           currentEffectiveBonus, maxQualities)

\* Fault variant: the loop is never stopped by the quality-count cap.
selectQualities_Uncapped(ds, item, enhancementBonus, remainingBudget, maxQualities) ==
  IF maxQualities <= 0 \/ enhancementBonus <= 0 THEN { <<>> }
  ELSE LET availableQualities ==
             IF isWeapon(item) THEN getQualitiesForWeapon(ds, item)
             ELSE getQualitiesForArmor(ds, item)
       IN  IF Len(availableQualities) = 0 THEN { <<>> }
           ELSE { SelectLoop(shuffled, <<>>, remainingBudget, enhancementBonus,
                             Len(availableQualities)) :
                  shuffled \in shuffleArray(availableQualities) }

\* The set of quality lists selectQualities can return.
selectQualities(ds, item, enhancementBonus, remainingBudget, maxQualities) ==
  IF maxQualities <= 0 \/ enhancementBonus <= 0 THEN { <<>> }
  ELSE LET availableQualities ==
             IF isWeapon(item) THEN getQualitiesForWeapon(ds, item)
             ELSE getQualitiesForArmor(ds, item)
       IN  IF Len(availableQualities) = 0 THEN { <<>> }
           ELSE { SelectLoop(shuffled, <<>>, remainingBudget, enhancementBonus,
                             maxQualities) :
                  shuffled \in shuffleArray(availableQualities) }

\* Fault variant: the configured maximum is ignored.
MaxBonus_AffordableOnly(cfg, remainingBudgetAfterBase) ==
  getMaxAffordableBonus(remainingBudgetAfterBase)

\* lines 273-275 of generateSingleItem
MaxBonus(cfg, remainingBudgetAfterBase) ==
  LET maxAffordable == getMaxAffordableBonus(remainingBudgetAfterBase)
      maxAllowed == cfg.maxEnhancementBonus
  IN  Min(maxAffordable, maxAllowed)

\* Fault variant: the rarity is taken from the base item's cost.
GeneratedItem_RarityOfBase(id, baseItem, enhancementBonus, qualities) ==
  LET totalCost == calculateTotalWithMasterwork(baseItem, enhancementBonus, qualities)
  IN  [ id |-> id,
        baseItem |-> baseItem,
        enhancementBonus |-> enhancementBonus,
        magicQualities |-> qualities,
        totalCost |-> totalCost,
        rarity |-> getRarityFromCost(CostOrZero(baseItem.cost)),
        isGenerated |-> TRUE,
        itemType |-> IF isWeapon(baseItem) THEN "weapon"
                     ELSE IF isArmor(baseItem) THEN "armor" ELSE "item" ]

\* lines 296-314 of generateSingleItem: price and tag the item
GeneratedItem(id, baseItem, enhancementBonus, qualities) ==
  LET totalCost == calculateTotalWithMasterwork(baseItem, enhancementBonus, qualities)
  IN  [ id |-> id,
        baseItem |-> baseItem,
        enhancementBonus |-> enhancementBonus,
        magicQualities |-> qualities,
        totalCost |-> totalCost,
        rarity |-> getRarityFromCost(totalCost),
        isGenerated |-> TRUE,
        itemType |-> IF isWeapon(baseItem) THEN "weapon"
                     ELSE IF isArmor(baseItem) THEN "armor" ELSE "item" ]

\* lines 343-358 of selectPremadeItem: tag the selected entry
PremadeItem(id, item, category) ==
  [ id |-> id,
    item |-> item,
    totalCost |-> item.cost,
    rarity |-> getRarityFromCost(item.cost),
    isGenerated |-> FALSE,
    itemType |-> IF category = "magic_weapons" THEN "magic_weapon"
                 ELSE IF category = "magic_apparel" THEN "magic_apparel"
                 ELSE "magic_item" ]

\* Fault variant: the affordable bonus is computed from the whole budget, the
\* base cost not subtracted.
EnhanceBaseItem_BaseNotCharged(ds, cfg, budget, baseItem, id) ==
  LET remainingAfterBase == budget
      maxBonus == MaxBonus(cfg, remainingAfterBase)
      outcomes ==
        IF canBeEnhanced(baseItem) /\ maxBonus > 0
        THEN UNION {
               LET remainingAfterBonus ==
                     remainingAfterBase - calculateEnhancementCost(enhancementBonus)
               IN  IF cfg.maxMagicAttributes > 0 /\ remainingAfterBonus > 0
                   THEN { <<enhancementBonus, qualities>> :
                          qualities \in selectQualities(ds, baseItem, enhancementBonus,
                                          remainingAfterBonus, cfg.maxMagicAttributes) }
                   ELSE { <<enhancementBonus, <<>> >> } :
               enhancementBonus \in randomInt(1, maxBonus) }
        ELSE { <<0, <<>> >> }
  IN  { GeneratedItem(id, baseItem, o[1], o[2]) : o \in outcomes }

\* lines 264-314 of generateSingleItem: enhance the chosen base item within the
\* budget, price it and tag it. The set of the items that can result.
EnhanceBaseItem(ds, cfg, budget, baseItem, id) ==
  LET baseCost == CostOrZero(baseItem.cost)
      remainingAfterBase == budget - baseCost
      maxBonus == MaxBonus(cfg, remainingAfterBase)
      \* pairs <<enhancementBonus, qualities>>
      outcomes ==
        IF canBeEnhanced(baseItem) /\ maxBonus > 0
        THEN UNION {
               LET remainingAfterBonus ==
                     remainingAfterBase - calculateEnhancementCost(enhancementBonus)
               IN  IF cfg.maxMagicAttributes > 0 /\ remainingAfterBonus > 0
                   THEN { <<enhancementBonus, qualities>> :
                          qualities \in selectQualities(ds, baseItem, enhancementBonus,
                                          remainingAfterBonus, cfg.maxMagicAttributes) }
                   ELSE { <<enhancementBonus, <<>> >> } :
               enhancementBonus \in randomInt(1, maxBonus) }
        ELSE { <<0, <<>> >> }
  IN  { GeneratedItem(id, baseItem, o[1], o[2]) : o \in outcomes }

\* Fault variant: the base item is drawn from the catalog's category itself,
\* not from the pool's filtered entries, with the test "item.cost <= budget"
\* that a null cost passes.
generateSingleItem_FromCatalog(ds, itemPool, cfg, budget, id) ==
  IF itemPool.totalGenerateCount = 0 THEN { <<>> }
  ELSE UNION {
         LET selectedItems ==
               getGenerateCategoryItems(ds, itemPool.generateItems[k].category)
             Fits(item) == CostOrZero(item.cost) <= budget
             affordableItems == SelectSeq(selectedItems, Fits)
         IN  IF Len(affordableItems) = 0 THEN { <<>> }
             ELSE { <<item>> :
                    item \in UNION { EnhanceBaseItem(ds, cfg, budget,
                                                     affordableItems[j], id) :
                                     j \in 1..Len(affordableItems) } } :
         k \in 1..Len(itemPool.generateItems) }

\* The set of the results generateSingleItem can return: <<>> is null.  The
\* roll in [0, totalGenerateCount) can select every category of the pool, each
\* of which holds an entry, so the null returns of lines 254 and 262 are never
\* taken.
generateSingleItem(ds, itemPool, cfg, budget, id) ==
  IF itemPool.totalGenerateCount = 0 THEN { <<>> }
  ELSE UNION {
         LET selectedItems == itemPool.generateItems[k].items
             affordableItems == filterByMaxCost(selectedItems, budget)
         IN  IF Len(affordableItems) = 0 THEN { <<>> }
             ELSE { <<item>> :
                    item \in UNION { EnhanceBaseItem(ds, cfg, budget,
                                                     affordableItems[j], id) :
                                     j \in 1..Len(affordableItems) } } :
         k \in 1..Len(itemPool.generateItems) }

\* The set of the results selectPremadeItem can return: <<>> is null.
selectPremadeItem(itemPool, budget, id) ==
  IF itemPool.totalPremadeCount = 0 THEN { <<>> }
  ELSE LET affordableItems ==
             \* positions <<k, j>> of the affordable entries, category by category
             UNION { { <<k, j>> : j \in { i \in 1..Len(itemPool.premadeItems[k].items) :
                                          itemPool.premadeItems[k].items[i].cost <= budget } } :
                     k \in 1..Len(itemPool.premadeItems) }
       IN  IF affordableItems = {} THEN { <<>> }
           ELSE { << PremadeItem(id, itemPool.premadeItems[s[1]].items[s[2]],
                                 itemPool.premadeItems[s[1]].category) >> :
                  s \in affordableItems }

RECURSIVE SumTotalCost(_)
\* items.reduce((sum, item) => sum + item.totalCost, 0)
SumTotalCost(its) ==
  IF its = <<>> THEN 0 ELSE Head(its).totalCost + SumTotalCost(Tail(its))

\* Fault variant: the last element is removed instead of the indexed one.
WithoutIndex_Pop(its, index) == SubSeq(its, 1, Len(its) - 1)

\* items.filter((_, i) => i !== indexToReroll), also the effect of splice(index, 1)
WithoutIndex(its, index) ==
  [k \in 1..(Len(its) - 1) |-> IF k < index THEN its[k] ELSE its[k + 1]]

\* Fault variant: the array is shuffled in place, as the comment of line 69
\* says, and left in the shuffled order.
ArrayAfterShuffle_InPlace(array, shuffled) == shuffled

\* What the array handed to shuffleArray holds once the call returned: line 72
\* copies it ([...array]) and only the copy is permuted.
ArrayAfterShuffle(array, shuffled) == array

\* The catalogs a draw can leave behind, given the budget it was made with and
\* the item it returned (<<>> is null).  Only selectQualities hands a catalog
\* array to code that permutes (shuffleArray, line 188); the filters, the
\* spread copies and items.filter build new arrays.  selectQualities is called
\* (lines 282-290) and reaches the shuffle (lines 175-188) exactly when the
\* item is enhanced, qualities are allowed, budget is left after the bonus and
\* the subtype lists a quality; every permutation can be the shuffle's.
DatasetAfterDraw(ds, cfg, budget, newItem) ==
  IF newItem = <<>> THEN { ds }
  ELSE IF ~newItem[1].isGenerated THEN { ds }
  ELSE LET item == newItem[1]
           baseItem == item.baseItem
           remainingAfterBonus ==
             budget - CostOrZero(baseItem.cost)
               - calculateEnhancementCost(item.enhancementBonus)
           qualityType ==
             IF isWeapon(baseItem)
             THEN (IF baseItem.attack_type = "Melee"
                   THEN "melee_weapon" ELSE "ranged_weapon")
             ELSE (IF baseItem.category = "Shields" THEN "shield" ELSE "apparel")
           availableQualities == getQualitiesForType(ds, qualityType)
       IN  IF /\ item.enhancementBonus > 0
              /\ cfg.maxMagicAttributes > 0
              /\ remainingAfterBonus > 0
              /\ Len(availableQualities) > 0
           THEN { [ds EXCEPT !.qualities.by_type[qualityType] =
                                ArrayAfterShuffle(availableQualities, shuffled)] :
                  shuffled \in shuffleArray(availableQualities) }
           ELSE { ds }

(***************************************************************************)
(* State: the page's configuration and result (page.tsx), the locals of a  *)
(* running generateLoot call, and a record of the last finished call.       *)
(***************************************************************************)
VARIABLES
  dataset,           \* the catalog handed to every call
  config,            \* formStateToConfig(formState)
  result,            \* the page's result: [isNull, items, totalValue]
  pc,                \* "idle", or "loop" inside generateLoot's while loop
  items,             \* generateLoot: the result list being built
  remainingBudget,   \* generateLoot: budget left
  targetItemCount,   \* generateLoot: the item count drawn for the call
  attempts,          \* generateLoot: loop iterations so far
  pool,              \* generateLoot: the pool built for the call
  nextId,            \* the id the next generateId() returns
  rerolls,           \* rerollItem calls made so far
  lastCall,          \* the last finished call: [op, index, replaced]
  call,              \* a direct call of a library function: [fn, args]
  ret                \* the value that call returned

vars == << dataset, config, result, pc, items, remainingBudget, targetItemCount,
           attempts, pool, nextId, rerolls, lastCall, call, ret >>

EmptyPool ==
  [ generateItems |-> <<>>, premadeItems |-> <<>>,
    totalGenerateCount |-> 0, totalPremadeCount |-> 0 ]

NoResult == [isNull |-> TRUE, items |-> <<>>, totalValue |-> 0]

NoCall == [op |-> "none", index |-> 0, replaced |-> FALSE, inputKept |-> TRUE]

\* no library function has been called directly
NoLibraryCall == [fn |-> "none", args |-> <<>>]

NoReturn == "none"

Init ==
  /\ dataset = Catalog
  /\ config \in Configs
  /\ result = NoResult
  /\ pc = "idle"
  /\ items = <<>>
  /\ remainingBudget = 0
  /\ targetItemCount = 0
  /\ attempts = 0
  /\ pool = EmptyPool
  /\ nextId = 1
  /\ rerolls = 0
  /\ lastCall = NoCall
  /\ call = NoLibraryCall
  /\ ret = NoReturn

\* generateLoot hands its result to the page (setResult) and its locals die.
ReturnLoot(resultItems) ==
  /\ result' = [ isNull |-> FALSE, items |-> resultItems,
                 totalValue |-> SumTotalCost(resultItems) ]
  /\ lastCall' = [op |-> "generate", index |-> 0, replaced |-> FALSE,
                   inputKept |-> TRUE]
  /\ pc' = "idle"
  /\ items' = <<>>
  /\ remainingBudget' = 0
  /\ targetItemCount' = 0
  /\ attempts' = 0
  /\ pool' = EmptyPool

\* generateLoot, lines 373-398: draw the target count, build the pool, return
\* at once when the pool is empty, else enter the loop.  A behaviour is one
\* generateLoot call and the rerolls of its result: generateLoot reads nothing
\* of the page's previous result, so a later call only repeats these runs.
GenerateLootStart ==
  /\ pc = "idle"
  /\ result.isNull
  /\ \E target \in randomInt(config.itemCountRange[1], config.itemCountRange[2]) :
       LET built == buildItemPool(dataset, config, config.maxCoinValue)
       IN  IF built.totalGenerateCount = 0 /\ built.totalPremadeCount = 0
           THEN /\ ReturnLoot(<<>>)
                /\ UNCHANGED << dataset, config, nextId, rerolls, call, ret >>
           ELSE /\ pc' = "loop"
                /\ items' = <<>>
                /\ remainingBudget' = config.maxCoinValue
                /\ targetItemCount' = target
                /\ attempts' = 0
                /\ pool' = built
                /\ UNCHANGED << dataset, config, result, nextId, rerolls, lastCall,
                                call, ret >>

\* Fault variant: the loop also runs on a budget of exactly zero.
LoopRuns_ZeroBudget ==
  /\ Len(items) < targetItemCount
  /\ attempts < targetItemCount * 10
  /\ remainingBudget >= 0

\* Fault variant: the while condition without the test of the item count.
LoopRuns_NoTarget ==
  /\ attempts < targetItemCount * 10
  /\ remainingBudget > 0

\* Fault variant: the attempt ceiling is the target itself, not ten times it.
LoopRuns_CeilingIsTarget ==
  /\ Len(items) < targetItemCount
  /\ attempts < targetItemCount
  /\ remainingBudget > 0

\* Fault variant: the while condition without the attempt ceiling.
LoopRuns_NoCeiling ==
  /\ Len(items) < targetItemCount
  /\ remainingBudget > 0

\* the while condition of line 400
LoopRuns ==
  /\ Len(items) < targetItemCount
  /\ attempts < targetItemCount * 10
  /\ remainingBudget > 0

\* Fault variant: a fair coin chooses the path whatever the two weights are, so
\* the side without entries can be chosen and the draw gives nothing.
LoopDraw_FairCoin ==
  generateSingleItem(dataset, pool, config, remainingBudget, nextId)
    \cup selectPremadeItem(pool, remainingBudget, nextId)

\* lines 404-419: the results one draw of the loop can give.  The roll in
\* [0, totalWeight) takes the generate path when generateWeight > 0 and the
\* premade path when premadeWeight > 0; totalWeight is never 0 inside the loop
\* (line 387 returned), so the break of line 408 is never taken.
LoopDraw ==
  LET generateWeight == pool.totalGenerateCount
      premadeWeight == pool.totalPremadeCount
  IN  (IF generateWeight > 0
       THEN generateSingleItem(dataset, pool, config, remainingBudget, nextId)
       ELSE {})
      \cup
      (IF premadeWeight > 0
       THEN selectPremadeItem(pool, remainingBudget, nextId)
       ELSE {})

\* one iteration of the while loop, lines 400-425
GenerateLootIterate ==
  /\ pc = "loop"
  /\ LoopRuns
  /\ attempts' = attempts + 1
  /\ \E newItem \in LoopDraw :
       /\ dataset' \in DatasetAfterDraw(dataset, config, remainingBudget, newItem)
       /\ IF newItem # <<>>
          THEN /\ items' = Append(items, newItem[1])
               /\ remainingBudget' = remainingBudget - newItem[1].totalCost
               /\ nextId' = nextId + 1
          ELSE UNCHANGED << items, remainingBudget, nextId >>
  /\ UNCHANGED << config, result, pc, targetItemCount, pool, rerolls, lastCall,
                  call, ret >>

\* the loop has ended: lines 427-435
GenerateLootReturn ==
  /\ pc = "loop"
  /\ ~LoopRuns
  /\ ReturnLoot(items)
  /\ UNCHANGED << dataset, config, nextId, rerolls, call, ret >>

\* Fault variant: the coin is tossed first, "hasGenerateItems &&
\* Math.random() < 0.5", so a pool without premade entries can lose the toss
\* and draw nothing.
RerollDraw_CoinFirst(itemPool, availableBudget) ==
  LET hasGenerateItems == itemPool.totalGenerateCount > 0
      hasPremadeItems == itemPool.totalPremadeCount > 0
  IN  IF ~hasGenerateItems /\ ~hasPremadeItems THEN { <<>> }
      ELSE (IF hasGenerateItems
            THEN generateSingleItem(dataset, itemPool, config, availableBudget, nextId)
            ELSE {})
           \cup
           (IF hasPremadeItems
            THEN selectPremadeItem(itemPool, availableBudget, nextId)
            ELSE { <<>> })

\* lines 491-500 of rerollItem: the results its one draw can give
RerollDraw(itemPool, availableBudget) ==
  LET hasGenerateItems == itemPool.totalGenerateCount > 0
      hasPremadeItems == itemPool.totalPremadeCount > 0
  IN  IF ~hasGenerateItems /\ ~hasPremadeItems THEN { <<>> }
      ELSE (IF hasGenerateItems
            THEN generateSingleItem(dataset, itemPool, config, availableBudget, nextId)
            ELSE {})
           \cup
           (IF hasPremadeItems
            THEN selectPremadeItem(itemPool, availableBudget, nextId)
            ELSE {})

\* Fault variant: "const items = currentItems", so the assignment and the
\* splice act on the caller's array, which ends as the returned list.
InputAfterReroll_Aliased(currentItems, returned) == returned

\* The caller's currentItems array after rerollItem has returned the list
\* `returned`: line 475 copies the array ([...currentItems]) and lines 486, 503
\* and 505 write to the copy only.
InputAfterReroll(currentItems, returned) == currentItems

\* Fault variant: the slot is dropped only when the freed budget is negative.
rerollItem_DropBelowZero(currentItems, indexToReroll) ==
  LET otherItemsCost == SumTotalCost(WithoutIndex(currentItems, indexToReroll))
      availableBudget == config.maxCoinValue - otherItemsCost
  IN  IF availableBudget < 0
      THEN { WithoutIndex(currentItems, indexToReroll) }
      ELSE { IF newItem # <<>>
             THEN [currentItems EXCEPT ![indexToReroll] = newItem[1]]
             ELSE WithoutIndex(currentItems, indexToReroll) :
             newItem \in RerollDraw(buildItemPool(dataset, config, availableBudget),
                                    availableBudget) }

\* Fault variant: the new item is drawn against the whole budget, not against
\* what the other slots leave.
rerollItem_WholeBudget(currentItems, indexToReroll) ==
  LET availableBudget == config.maxCoinValue
  IN  IF availableBudget <= 0
      THEN { WithoutIndex(currentItems, indexToReroll) }
      ELSE { IF newItem # <<>>
             THEN [currentItems EXCEPT ![indexToReroll] = newItem[1]]
             ELSE WithoutIndex(currentItems, indexToReroll) :
             newItem \in RerollDraw(buildItemPool(dataset, config, availableBudget),
                                    availableBudget) }

\* the item lists rerollItem(dataset, config, currentItems, indexToReroll) can return
rerollItem(currentItems, indexToReroll) ==
  LET otherItemsCost == SumTotalCost(WithoutIndex(currentItems, indexToReroll))
      availableBudget == config.maxCoinValue - otherItemsCost
  IN  IF availableBudget <= 0
      THEN { WithoutIndex(currentItems, indexToReroll) }
      ELSE { IF newItem # <<>>
             THEN [currentItems EXCEPT ![indexToReroll] = newItem[1]]
             ELSE WithoutIndex(currentItems, indexToReroll) :
             newItem \in RerollDraw(buildItemPool(dataset, config, availableBudget),
                                    availableBudget) }

\* handleRerollItem(index) of page.tsx: rerollItem on the page's result
RerollItem ==
  /\ pc = "idle"
  /\ ~result.isNull
  /\ rerolls < MaxRerolls
  /\ rerolls' = rerolls + 1
  /\ \E index \in 1..Len(result.items) :
       \E newItems \in rerollItem(result.items, index) :
         /\ result' = [ isNull |-> FALSE, items |-> newItems,
                        totalValue |-> SumTotalCost(newItems) ]
         /\ lastCall' = [ op |-> "reroll", index |-> index,
                          replaced |-> Len(newItems) = Len(result.items),
                          inputKept |->
                            InputAfterReroll(result.items, newItems) = result.items ]
         /\ nextId' = IF Len(newItems) = Len(result.items) THEN nextId + 1 ELSE nextId
         /\ dataset' \in
              DatasetAfterDraw(dataset, config,
                config.maxCoinValue - SumTotalCost(WithoutIndex(result.items, index)),
                IF Len(newItems) = Len(result.items)
                THEN << newItems[index] >> ELSE <<>>)
  /\ UNCHANGED << config, pc, items, remainingBudget, targetItemCount,
                  attempts, pool, call, ret >>

Next ==
  \/ GenerateLootStart
  \/ GenerateLootIterate
  \/ GenerateLootReturn
  \/ RerollItem

Spec == Init /\ [][Next]_vars

\* Configurations outside the documented domain: a negative budget, which the
\* form never produces (GeneratorControls.tsx keeps maxCoinValue >= 1) but a
\* direct caller of generateLoot can pass.
OutOfDomainConfigs ==
  { Config(-100, <<1, MaxItems>>, g, p, <<>>, 0, 0) :
      g \in GenerateChoices, p \in PremadeChoices }

\* The calls of a caller that may also pass an out-of-domain configuration.
InitAnyConfig ==
  /\ dataset = Catalog
  /\ config \in Configs \cup OutOfDomainConfigs
  /\ result = NoResult
  /\ pc = "idle"
  /\ items = <<>>
  /\ remainingBudget = 0
  /\ targetItemCount = 0
  /\ attempts = 0
  /\ pool = EmptyPool
  /\ nextId = 1
  /\ rerolls = 0
  /\ lastCall = NoCall
  /\ call = NoLibraryCall
  /\ ret = NoReturn

SpecAnyConfig == InitAnyConfig /\ [][Next]_vars

(***************************************************************************)
(* Direct calls of the pure library functions of rarity.ts and pricing.ts: *)
(* one call per behaviour, its arguments drawn from the sets below.         *)
(***************************************************************************)
RarityOrder == << "common", "uncommon", "rare", "very_rare", "legendary" >>

\* costs at and around the ends of the bands, and far above them
EdgeCosts == { 0, 100, 101, 500, 501, 2000, 2001, 10000, 10001, 1000000 }

\* every set of tiers, as an array in the order of RarityOrder, and two arrays
\* in another order
AllowedChoices ==
  { LET In(r) == r \in S IN SelectSeq(RarityOrder, In) : S \in SUBSET Rarities }
    \cup { << "legendary", "common" >>, << "very_rare", "rare", "uncommon" >> }

BudgetChoices ==
  { -1, 0, 1, 100, 101, 102, 500, 501, 502, 2000, 2001, 2002, 10000, 10001,
    10002, 10003, 60000 }

\* budgets around every enhancement cost, every thousand, and negative ones
AffordableBudgetChoices ==
  { -2000, -1 }
    \cup { 1000 * k : k \in 0..MaxThousands }
    \cup { b * b * ENHANCEMENT_BASE_COST + d : b \in 0..10, d \in {-1, 0, 1} }

LibraryIdle == call.fn = "none" /\ pc = "idle" /\ result.isNull

LibraryFrame ==
  UNCHANGED << dataset, config, result, pc, items, remainingBudget,
               targetItemCount, attempts, pool, nextId, rerolls, lastCall >>

\* getRarityFromCost of two costs, and isWithinRarityRange of the first cost
\* for every tier
ClassifyCosts ==
  /\ LibraryIdle
  /\ \E cost1 \in 0..MaxCost, cost2 \in EdgeCosts :
       /\ call' = [fn |-> "getRarityFromCost", args |-> << cost1, cost2 >>]
       /\ ret' = [ rarity1 |-> getRarityFromCost(cost1),
                   rarity2 |-> getRarityFromCost(cost2),
                   within |-> { r \in Rarities : isWithinRarityRange(cost1, r) } ]
  /\ LibraryFrame

PickRarity ==
  /\ LibraryIdle
  /\ \E maxBudget \in BudgetChoices, allowedRarities \in AllowedChoices :
       /\ call' = [ fn |-> "getRandomRarityForBudget",
                    args |-> << maxBudget, allowedRarities >> ]
       /\ ret' \in getRandomRarityForBudget(maxBudget, allowedRarities)
  /\ LibraryFrame

AffordableBonus ==
  /\ LibraryIdle
  /\ \E budget \in AffordableBudgetChoices :
       /\ call' = [fn |-> "getMaxAffordableBonus", args |-> << budget >>]
       /\ ret' = getMaxAffordableBonus(budget)
  /\ LibraryFrame

InitLibrary ==
  /\ dataset = Catalog
  /\ config = Config(0, <<1, 1>>, <<>>, <<>>, <<>>, 0, 0)
  /\ result = NoResult
  /\ pc = "idle"
  /\ items = <<>>
  /\ remainingBudget = 0
  /\ targetItemCount = 0
  /\ attempts = 0
  /\ pool = EmptyPool
  /\ nextId = 1
  /\ rerolls = 0
  /\ lastCall = NoCall
  /\ call = NoLibraryCall
  /\ ret = NoReturn

NextLibrary ==
  \/ ClassifyCosts
  \/ PickRarity
  \/ AffordableBonus

LibrarySpec == InitLibrary /\ [][NextLibrary]_vars

(***************************************************************************)
(* Properties                                                               *)
(***************************************************************************)
\* a finished call has handed a result to the page
Returned == pc = "idle" /\ ~result.isNull
GenerateReturned == Returned /\ lastCall.op = "generate"
RerollReturned == Returned /\ lastCall.op = "reroll"

\* a step that is one rerollItem call
RerollStep == pc = "idle" /\ rerolls' = rerolls + 1

\* every item the program holds: the page's result and the list being built
HeldItems ==
  { result.items[k] : k \in 1..Len(result.items) } \cup { items[k] : k \in 1..Len(items) }

GeneratedHeld == { it \in HeldItems : it.isGenerated }

RECURSIVE SumBonusValues(_)
\* the bonus values of the bonus-equivalent qualities of a list
SumBonusValues(qualities) ==
  IF qualities = <<>> THEN 0
  ELSE (IF Head(qualities).is_bonus THEN Head(qualities).bonus_value ELSE 0)
       + SumBonusValues(Tail(qualities))

RECURSIVE SumFlatCosts(_)
\* the costs of the flat-cost qualities of a list
SumFlatCosts(qualities) ==
  IF qualities = <<>> THEN 0
  ELSE (IF Head(qualities).is_bonus THEN 0 ELSE Head(qualities).flat_cost)
       + SumFlatCosts(Tail(qualities))

\* C1 (as claimed): the items of every result generateLoot returns cost at most
\* config.maxCoinValue in total.
C1_BudgetConservation ==
  GenerateReturned => SumTotalCost(result.items) <= config.maxCoinValue

\* C2 (as claimed): after a reroll of slot i every index j # i of the returned
\* list holds the item that index j held before, whether the slot was replaced
\* or dropped.
C2_SameIndexAfterReroll ==
  [][ RerollStep =>
        \A j \in 1..Len(result'.items) :
          j # lastCall'.index => result'.items[j] = result.items[j] ]_vars

\* C2 (amended): a reroll of slot i that replaces the slot leaves every index
\* j # i holding the item it held before; a reroll that drops the slot returns
\* the other items unchanged and in order: indices below i keep their item and
\* every index j >= i holds the item that index j + 1 held before.
C2_RerollIsolation ==
  [][ RerollStep =>
        LET i == lastCall'.index
            old == result.items
            new == result'.items
        IN  IF lastCall'.replaced
            THEN /\ Len(new) = Len(old)
                 /\ \A j \in 1..Len(old) : j # i => new[j] = old[j]
            ELSE /\ Len(new) = Len(old) - 1
                 /\ \A j \in 1..Len(new) :
                      new[j] = IF j < i THEN old[j] ELSE old[j + 1] ]_vars

\* C2 witness: a reroll dropped a slot that had a slot below it and a slot above.
C2_Witness ==
  /\ RerollReturned
  /\ ~lastCall.replaced
  /\ lastCall.index >= 2
  /\ lastCall.index <= Len(result.items)

\* C3 (as claimed): a slot regenerated by rerollItem costs at most
\* C = config.maxCoinValue - (total cost of the other slots).
C3_RerollSlotBudget ==
  (RerollReturned /\ lastCall.replaced) =>
    LET C == config.maxCoinValue
             - SumTotalCost(WithoutIndex(result.items, lastCall.index))
    IN  C > 0 => result.items[lastCall.index].totalCost <= C

\* C4 (as claimed): with a non-empty rarity filter every item of a returned
\* result has its rarity in the filter.
C4_RarityFilterRespected ==
  (Returned /\ Len(config.rarityFilter) > 0) =>
    \A k \in 1..Len(result.items) :
      Includes(config.rarityFilter, result.items[k].rarity)

\* C5: every item, generated or premade, carries the rarity of its total cost.
C5_RarityConsistency ==
  \A it \in HeldItems :
    it.rarity = ( IF it.totalCost <= 100 THEN "common"
                  ELSE IF it.totalCost <= 500 THEN "uncommon"
                  ELSE IF it.totalCost <= 2000 THEN "rare"
                  ELSE IF it.totalCost <= 10000 THEN "very_rare"
                  ELSE "legendary" )

\* C5 witness: a returned result holds an enhanced generated item whose rarity
\* is not that of its base item, and a premade item.
C5_Witness ==
  /\ Returned
  /\ \E it \in HeldItems :
       /\ it.isGenerated
       /\ it.enhancementBonus > 0
       /\ it.rarity # getRarityFromCost(it.baseItem.cost)
  /\ \E it \in HeldItems : ~it.isGenerated

\* C6: the total cost of a generated item is its base cost, plus the
\* enhancement cost of its effective bonus, plus its flat quality costs, plus
\* the masterwork surcharge (300 weapon, 150 armor or shield) once and only
\* when it is enhanced; a plain mundane item costs its base cost.
C6_CostFormula ==
  \A it \in GeneratedHeld :
    LET effective == it.enhancementBonus + SumBonusValues(it.magicQualities)
        surcharge == IF it.enhancementBonus > 0
                     THEN (IF it.baseItem.type = "Mundane Weapon" THEN 300 ELSE 150)
                     ELSE 0
    IN  /\ it.totalCost = it.baseItem.cost + effective * effective * 2000
                          + SumFlatCosts(it.magicQualities) + surcharge
        /\ it.baseItem.type = "Mundane Item" => it.totalCost = it.baseItem.cost

\* C6 witness: the program holds an enhanced armor that carries a
\* bonus-equivalent quality and a flat-cost quality.
C6_Witness ==
  \E it \in GeneratedHeld :
    /\ it.baseItem.type = "Mundane Armor"
    /\ it.enhancementBonus > 0
    /\ \E k \in 1..Len(it.magicQualities) : it.magicQualities[k].is_bonus
    /\ \E k \in 1..Len(it.magicQualities) : ~it.magicQualities[k].is_bonus

\* C7: every generated item has a base item of a category the configuration
\* lists in generateCategories, and every premade item is an entry of a
\* category it lists in includePremade.
C7_CategoryRespect ==
  \A it \in HeldItems :
    IF it.isGenerated
    THEN \E c \in 1..Len(config.generateCategories) :
           Includes(dataset.items[config.generateCategories[c]], it.baseItem)
    ELSE \E c \in 1..Len(config.includePremade) :
           Includes(dataset.items[config.includePremade[c]], it.item)

\* C7 witness: a returned result holds a generated and a premade item while the
\* configuration leaves out a generate category and a premade category.
C7_Witness ==
  /\ Returned
  /\ \E it \in HeldItems : it.isGenerated
  /\ \E it \in HeldItems : ~it.isGenerated
  /\ Len(config.generateCategories) < 3
  /\ Len(config.includePremade) < 3

\* C8: the effective bonus of a generated item, its enhancement bonus plus the
\* bonus values of its bonus-equivalent qualities, is at most 10.
C8_EffectiveBonusCap ==
  \A it \in GeneratedHeld :
    it.enhancementBonus + SumBonusValues(it.magicQualities) <= 10

\* C8 witness: an item whose qualities bring its effective bonus to the cap.
C8_Witness ==
  \E it \in GeneratedHeld :
    /\ it.magicQualities # <<>>
    /\ it.enhancementBonus + SumBonusValues(it.magicQualities) = 10

\* C9: the enhancement bonus of a generated item is in 0..9 and at most
\* config.maxEnhancementBonus.
C9_EnhancementBounds ==
  \A it \in GeneratedHeld :
    /\ 0 <= it.enhancementBonus
    /\ it.enhancementBonus <= 9
    /\ it.enhancementBonus <= config.maxEnhancementBonus

\* C9 witness: an item enhanced to the configured maximum although the budget
\* paid for a higher bonus.
C9_Witness ==
  \E it \in GeneratedHeld :
    /\ it.enhancementBonus = config.maxEnhancementBonus
    /\ it.enhancementBonus > 0
    /\ getMaxAffordableBonus(config.maxCoinValue - it.baseItem.cost)
         > config.maxEnhancementBonus

\* C10: a generated item carries at most config.maxMagicAttributes qualities.
C10_QualityCountCap ==
  \A it \in GeneratedHeld : Len(it.magicQualities) <= config.maxMagicAttributes

\* C10 witness: an item that carries as many qualities as the configuration
\* allows, fewer than its catalog list offers.
C10_Witness ==
  \E it \in GeneratedHeld :
    /\ config.maxMagicAttributes >= 1
    /\ Len(it.magicQualities) = config.maxMagicAttributes
    /\ it.baseItem.type = "Mundane Weapon"
    /\ Len(getQualitiesForWeapon(dataset, it.baseItem)) > config.maxMagicAttributes

\* C11: a catalog entry whose cost is null is never the base item of an item
\* that generateLoot or rerollItem returns (nor of one generateLoot is building).
C11_NullCostNeverBase ==
  \A it \in HeldItems :
    IF it.isGenerated THEN it.baseItem.cost # NULL ELSE it.item.cost # NULL

\* C11 witness: a returned result holds a generated item whose base item comes
\* from an enabled category that also lists an entry of null cost.
C11_Witness ==
  /\ Returned
  /\ \E it \in GeneratedHeld :
       \E c \in 1..Len(config.generateCategories) :
         LET entries == dataset.items[config.generateCategories[c]]
         IN  /\ Includes(entries, it.baseItem)
             /\ \E k \in 1..Len(entries) : entries[k].cost = NULL

\* an entry the pool may hold under a budget ceiling: purchasable, within the
\* ceiling, and of a rarity tier the filter allows
EntryAllowed(entry, ceiling) ==
  /\ entry.cost # NULL
  /\ entry.cost > 0
  /\ entry.cost <= ceiling
  /\ Len(config.rarityFilter) > 0 =>
       Includes(config.rarityFilter, getRarityFromCost(entry.cost))

\* the positions <<c, k>> of the allowed entries of the enabled categories
SurvivingEntries(categories, ceiling) ==
  { ck \in UNION { {c} \X (1..Len(dataset.items[categories[c]])) :
                    c \in 1..Len(categories) } :
      EntryAllowed(dataset.items[categories[ck[1]]][ck[2]], ceiling) }

\* what C12 says of a pool built for a budget ceiling
PoolMembership(p, ceiling) ==
  LET groups == p.generateItems \o p.premadeItems
  IN  /\ \A g \in 1..Len(groups) :
           /\ Len(groups[g].items) > 0
           /\ \A k \in 1..Len(groups[g].items) :
                EntryAllowed(groups[g].items[k], ceiling)
      /\ p.totalGenerateCount
           = Cardinality(SurvivingEntries(config.generateCategories, ceiling))
      /\ p.totalPremadeCount
           = Cardinality(SurvivingEntries(config.includePremade, ceiling))

\* C12 (as claimed): every entry of every category pool that buildItemPool
\* returns, for generateLoot (ceiling config.maxCoinValue) and for rerollItem
\* (ceiling: the budget the other slots leave), is purchasable (cost non-null
\* and > 0), costs at most the ceiling and has a rarity tier the filter allows;
\* no category of the pool is empty and the two counts are the numbers of the
\* surviving entries.
C12_PoolMembership ==
  /\ pc = "loop" => PoolMembership(pool, config.maxCoinValue)
  /\ Returned =>
       \A i \in 1..Len(result.items) :
         LET availableBudget ==
               config.maxCoinValue - SumTotalCost(WithoutIndex(result.items, i))
         IN  availableBudget > 0 =>
               PoolMembership(buildItemPool(dataset, config, availableBudget),
                              availableBudget)

\* C13: generateLoot's loop runs at most targetItemCount * 10 iterations: it is
\* entered with no iteration counted, and every step inside it either returns
\* or is one more iteration, successful or failed, counted within that ceiling
\* for the target drawn at the start of the call.
C13_IterationCeiling ==
  [][ /\ (pc = "idle" /\ pc' = "loop") => (attempts' = 0 /\ targetItemCount' >= 1)
      /\ pc = "loop" =>
           \/ pc' = "idle"
           \/ /\ pc' = "loop"
              /\ targetItemCount' = targetItemCount
              /\ attempts' = attempts + 1
              /\ attempts' <= targetItemCount * 10 ]_vars

\* C13 witness: the loop has run targetItemCount * 10 iterations, failed draws
\* among them, with the target not reached and budget left.
C13_Witness ==
  /\ pc = "loop"
  /\ attempts = targetItemCount * 10
  /\ Len(items) < targetItemCount
  /\ remainingBudget > 0

\* a step that is the return of generateLoot out of its loop
LoopReturnStep == pc = "loop" /\ pc' = "idle"

\* C14 (as claimed): when generateLoot returns out of its loop, the result
\* count equals the target, or the remaining budget is <= 0, or
\* targetItemCount * 10 draws have failed (added no item).
C14_ExitAfterFailedDraws ==
  [][ LoopReturnStep =>
        \/ Len(items) = targetItemCount
        \/ remainingBudget <= 0
        \/ attempts - Len(items) >= targetItemCount * 10 ]_vars

\* C14 (amended): when generateLoot returns out of its loop, the result count
\* equals the target, or the remaining budget is <= 0, or targetItemCount * 10
\* draws, successful and failed together, have been made.
C14_LoopExitCondition ==
  [][ LoopReturnStep =>
        \/ Len(items) = targetItemCount
        \/ remainingBudget <= 0
        \/ attempts >= targetItemCount * 10 ]_vars

\* C14 witness: generateLoot returned an item, fewer items than the least
\* target, with budget left: its loop was stopped by the ceiling.
C14_Witness ==
  /\ GenerateReturned
  /\ Len(result.items) >= 1
  /\ Len(result.items) < config.itemCountRange[1]
  /\ result.totalValue < config.maxCoinValue

\* C15: the target count of a generateLoot call lies in [min, max] of
\* config.itemCountRange and does not change during the call; in every state
\* of the loop the list being built holds at most that many items, and so does
\* the returned result, which therefore holds at most max items.
C15_ItemCount ==
  [][ /\ pc' = "loop" =>
           /\ targetItemCount' \in config.itemCountRange[1]..config.itemCountRange[2]
           /\ Len(items') <= targetItemCount'
      /\ (pc = "loop" /\ pc' = "loop") => targetItemCount' = targetItemCount
      /\ LoopReturnStep => Len(result'.items) <= targetItemCount
      /\ (result.isNull /\ ~result'.isNull) =>
           Len(result'.items) <= config.itemCountRange[2] ]_vars

\* C15 witness: generateLoot returned as many items as the range allows, from
\* a range that also allows fewer.
C15_Witness ==
  /\ GenerateReturned
  /\ config.itemCountRange[1] < config.itemCountRange[2]
  /\ Len(result.items) = config.itemCountRange[2]

\* C16: with config.maxCoinValue = 0, generateLoot returns an empty item list
\* and totalValue = 0, whatever the categories and the rarity filter, also when
\* an enabled category holds an entry of cost 0.
C16_ZeroBudget ==
  (GenerateReturned /\ config.maxCoinValue = 0) =>
    (Len(result.items) = 0 /\ result.totalValue = 0)

\* C16 witness: generateLoot returned under a budget of 0 while an enabled
\* premade category holds an entry of cost 0, which the pool keeps.
C16_Witness ==
  /\ GenerateReturned
  /\ config.maxCoinValue = 0
  /\ buildItemPool(dataset, config, 0).totalPremadeCount > 0

\* an entry of the catalog that is affordable under config.maxCoinValue and
\* permitted by config.rarityFilter
Candidate(entry) ==
  /\ entry.cost # NULL
  /\ entry.cost <= config.maxCoinValue
  /\ Len(config.rarityFilter) = 0
       \/ Includes(config.rarityFilter, getRarityFromCost(entry.cost))

\* no enabled category holds a candidate
NoCandidate ==
  LET enabled == config.generateCategories \o config.includePremade
  IN  \A c \in 1..Len(enabled) :
        \A k \in 1..Len(dataset.items[enabled[c]]) :
          ~Candidate(dataset.items[enabled[c]][k])

\* C17: when no enabled category holds an entry that is affordable under
\* maxCoinValue and permitted by rarityFilter, generateLoot returns a result
\* with no item and totalValue = 0; so it does with rarityFilter = [legendary]
\* and maxCoinValue = 5000.
C17_GracefulDegradation ==
  (/\ GenerateReturned
   /\ \/ NoCandidate
      \/ (config.rarityFilter = <<"legendary">> /\ config.maxCoinValue = 5000))
  => (Len(result.items) = 0 /\ result.totalValue = 0)

\* C17 witness: generateLoot returned under the legendary filter and a budget
\* of 5000 with every category enabled, a legendary premade entry among them.
C17_Witness ==
  /\ GenerateReturned
  /\ config.rarityFilter = <<"legendary">>
  /\ config.maxCoinValue = 5000
  /\ Len(config.generateCategories) = 3
  /\ Len(config.includePremade) = 3
  /\ \E k \in 1..Len(dataset.items.magic_weapons) :
       getRarityFromCost(dataset.items.magic_weapons[k].cost) = "legendary"

\* C18 (as claimed): generateLoot called with a configuration value outside
\* its domain, a negative maxCoinValue, fails with a validation error before
\* any generation step: it never hands a result set to its caller.
C18_OutOfDomainFailsFast ==
  config.maxCoinValue < 0 => (result.isNull /\ pc = "idle")

\* the scenario of C19: budget 2000, mundane weapons only, no premade
\* category, enhancement bonus of at most 1
Scenario2000 ==
  /\ config.maxCoinValue = 2000
  /\ config.generateCategories = <<"mundane_weapons">>
  /\ config.includePremade = <<>>
  /\ config.maxEnhancementBonus = 1

\* C19: in the scenario of budget 2000, mundane weapons only and
\* maxEnhancementBonus = 1, the items of every result of generateLoot cost at
\* most 2000 in total, for every item count range.
C19_Scenario2000 ==
  (GenerateReturned /\ Scenario2000) => SumTotalCost(result.items) <= 2000

\* C19 witness: generateLoot returned two or more weapons in the scenario,
\* none enhanced although a +1 bonus alone costs exactly the budget.
C19_Witness ==
  /\ GenerateReturned
  /\ Scenario2000
  /\ Len(result.items) >= 2
  /\ calculateEnhancementCost(1) = config.maxCoinValue
  /\ \A k \in 1..Len(result.items) : result.items[k].enhancementBonus = 0

\* C20: when config.maxCoinValue minus the total cost of the other slots is
\* <= 0, rerollItem on slot i returns one item fewer: the other items in their
\* order and no new item, with totalValue the sum of their costs.
C20_RerollDropOnExhaustedBudget ==
  [][ RerollStep =>
        LET i == lastCall'.index
            old == result.items
            new == result'.items
            otherItemsCost == SumTotalCost(old) - old[i].totalCost
        IN  config.maxCoinValue - otherItemsCost <= 0 =>
              /\ Len(new) = Len(old) - 1
              /\ \A j \in 1..Len(new) :
                   new[j] = IF j < i THEN old[j] ELSE old[j + 1]
              /\ result'.totalValue = otherItemsCost
              /\ nextId' = nextId ]_vars

\* C20 witness: a reroll dropped its slot and the items it left use up the
\* whole budget or more.
C20_Witness ==
  /\ RerollReturned
  /\ ~lastCall.replaced
  /\ Len(result.items) >= 1
  /\ config.maxCoinValue - SumTotalCost(result.items) <= 0

TierRank(rarity) ==
  CHOOSE i \in 1..Len(RarityOrder) : RarityOrder[i] = rarity

\* the band of a tier as the specification states it
InBand(cost, rarity) ==
  IF rarity = "common" THEN 0 <= cost /\ cost <= 100
  ELSE IF rarity = "uncommon" THEN 101 <= cost /\ cost <= 500
  ELSE IF rarity = "rare" THEN 501 <= cost /\ cost <= 2000
  ELSE IF rarity = "very_rare" THEN 2001 <= cost /\ cost <= 10000
  ELSE 10001 <= cost

\* C22: for every non-negative integer cost, getRarityFromCost(cost) is the one
\* tier whose band holds the cost, isWithinRarityRange(cost, tier) is true of
\* that tier and of no other, and cost1 <= cost2 implies
\* tier(cost1) <= tier(cost2).
C22_RarityClassification ==
  call.fn = "getRarityFromCost" =>
    LET cost1 == call.args[1]
        cost2 == call.args[2]
    IN  /\ \A r \in Rarities : InBand(cost1, r) <=> r = ret.rarity1
        /\ \A r \in Rarities : InBand(cost2, r) <=> r = ret.rarity2
        /\ ret.within = { ret.rarity1 }
        /\ cost1 <= cost2 => TierRank(ret.rarity1) <= TierRank(ret.rarity2)
        /\ cost2 <= cost1 => TierRank(ret.rarity2) <= TierRank(ret.rarity1)

\* C22 witness: a cost at the upper end of a band was classified together
\* with the cost that opens the next band.
C22_Witness ==
  /\ call.fn = "getRarityFromCost"
  /\ call.args = << 2000, 2001 >>
  /\ ret.rarity1 = "rare"
  /\ ret.rarity2 = "very_rare"

\* the tiers of allowedRarities whose band minimum is within the budget
SurvivingTiers(maxBudget, allowedRarities) ==
  { r \in Rarities :
      Includes(allowedRarities, r) /\ RARITY_THRESHOLDS[r].min <= maxBudget }

\* C23 (as claimed): for every budget and every allowedTiers, the tier that
\* getRandomRarityForBudget returns is a member of allowedTiers whose band
\* minimum is <= maxBudget, and every such tier can be returned.
C23_PickInsideSurvivingTiers ==
  call.fn = "getRandomRarityForBudget" =>
    LET maxBudget == call.args[1]
        allowedRarities == call.args[2]
    IN  /\ ret \in SurvivingTiers(maxBudget, allowedRarities)
        /\ getRandomRarityForBudget(maxBudget, allowedRarities)
             = SurvivingTiers(maxBudget, allowedRarities)

\* C23 (amended): when some tier of allowedTiers has its band minimum <=
\* maxBudget, the tier returned is such a tier and every such tier can be
\* returned; when none has, "common" is returned.
C23_PickOrFallback ==
  call.fn = "getRandomRarityForBudget" =>
    LET maxBudget == call.args[1]
        allowedRarities == call.args[2]
        surviving == SurvivingTiers(maxBudget, allowedRarities)
        canReturn == getRandomRarityForBudget(maxBudget, allowedRarities)
    IN  IF surviving # {}
        THEN ret \in surviving /\ canReturn = surviving
        ELSE ret = "common" /\ canReturn = { "common" }

\* C23 witness: the tier returned is the last surviving one, of weight 1 (its
\* band opens at the budget), while an allowed tier does not survive.
C23_Witness ==
  /\ call.fn = "getRandomRarityForBudget"
  /\ call.args = << 2001, RarityOrder >>
  /\ ret = "very_rare"

\* C24: for every integer budget >= 0, getMaxAffordableBonus(budget) is the
\* largest bonus b of 0..9 with b * b * 2000 <= budget; for a negative budget
\* it is 0.
C24_MaxAffordableBonus ==
  call.fn = "getMaxAffordableBonus" =>
    LET budget == call.args[1]
        b == ret
    IN  IF budget >= 0
        THEN /\ b \in 0..9
             /\ b * b * 2000 <= budget
             /\ b = 9 \/ (b + 1) * (b + 1) * 2000 > budget
             /\ \A c \in 0..9 : c * c * 2000 <= budget => c <= b
        ELSE b = 0

\* C24 witness: a budget one coin short of the cost of +3 gives 2, and this is
\* one of the budgets called with.
C24_Witness ==
  /\ call.fn = "getMaxAffordableBonus"
  /\ call.args[1] = 17999
  /\ ret = 2

RECURSIVE DeductedForQualities(_, _)
\* what selectQualities deducts for a list of qualities attached in order:
\* calculateQualityCost of each at the effective bonus current when attached
DeductedForQualities(qualities, currentEffectiveBonus) ==
  IF qualities = <<>> THEN 0
  ELSE calculateQualityCost(Head(qualities), currentEffectiveBonus)
       + DeductedForQualities(
           Tail(qualities),
           IF Head(qualities).is_bonus
           THEN currentEffectiveBonus + Head(qualities).bonus_value
           ELSE currentEffectiveBonus)

\* C25: for every enhanced item, the budget deducted for its bonus and its
\* qualities, each quality priced at the effective bonus current when it is
\* attached, is the enhancement cost of the final effective bonus plus the
\* flat costs, in the order the qualities were attached and in every other
\* order.
C25_MarginalPricingPathIndependent ==
  \A it \in GeneratedHeld :
    LET final == it.enhancementBonus + SumBonusValues(it.magicQualities)
    IN  \A order \in shuffleArray(it.magicQualities) :
          it.enhancementBonus * it.enhancementBonus * 2000
            + DeductedForQualities(order, it.enhancementBonus)
          = final * final * 2000 + SumFlatCosts(it.magicQualities)

\* C25 witness: an item carries two bonus-equivalent qualities of different
\* bonus values, attached in the order opposite to the catalog's.
C25_Witness ==
  \E it \in GeneratedHeld :
    /\ Len(it.magicQualities) = 2
    /\ it.magicQualities[1].is_bonus
    /\ it.magicQualities[2].is_bonus
    /\ it.magicQualities[1].bonus_value > it.magicQualities[2].bonus_value

\* C26: after generateLoot and any number of rerollItem calls with the same
\* configuration, the items of the result, and of the list generateLoot is
\* building, cost at most config.maxCoinValue + 300 in total; and once the
\* total is above the budget, no step adds an item.
C26_BoundedOvershoot ==
  [][ /\ SumTotalCost(result'.items) <= config.maxCoinValue + 300
      /\ SumTotalCost(items') <= config.maxCoinValue + 300
      /\ SumTotalCost(items) > config.maxCoinValue => Len(items') <= Len(items)
      /\ (~result.isNull /\ SumTotalCost(result.items) > config.maxCoinValue)
           => Len(result'.items) <= Len(result.items) ]_vars

\* C26 witness: a reroll replaced a slot and the result costs more than the
\* budget.
C26_Witness ==
  /\ RerollReturned
  /\ lastCall.replaced
  /\ Len(result.items) >= 2
  /\ SumTotalCost(result.items) > config.maxCoinValue

\* C27: rerollItem on slot i, with the freed budget B = maxCoinValue minus the
\* costs of the other slots, replaces the slot by a new item, the length
\* unchanged, if and only if B > 0 and the pool built against B holds an
\* entry; in every other case it drops the slot.
C27_RerollDropsExactlyWhenNothingToDraw ==
  [][ RerollStep =>
        LET i == lastCall'.index
            old == result.items
            new == result'.items
            B == config.maxCoinValue - (SumTotalCost(old) - old[i].totalCost)
            built == buildItemPool(dataset, config, B)
            canDraw == /\ B > 0
                       /\ built.totalGenerateCount + built.totalPremadeCount > 0
        IN  IF canDraw
            THEN Len(new) = Len(old) /\ new[i].id = nextId /\ new[i] # old[i]
            ELSE Len(new) = Len(old) - 1 /\ nextId' = nextId ]_vars

\* C27 witness: a reroll dropped its slot although the other slots left a
\* budget above 0: nothing of the catalog was within it.
C27_Witness ==
  /\ RerollReturned
  /\ ~lastCall.replaced
  /\ config.maxCoinValue - SumTotalCost(result.items) > 0
  /\ config.generateCategories # <<>>

\* C28: generateLoot returns at least one item whenever maxCoinValue > 0, the
\* minimum of the item count range is at least 1 and the pool built against
\* maxCoinValue holds an entry: the first draw is made against the budget the
\* pool was filtered by, so it cannot fail on either path.
C28_AtLeastOneItem ==
  LET built == buildItemPool(dataset, config, config.maxCoinValue)
  IN  ( /\ GenerateReturned
        /\ config.maxCoinValue > 0
        /\ config.itemCountRange[1] >= 1
        /\ built.totalGenerateCount + built.totalPremadeCount > 0 )
      => Len(result.items) >= 1

\* a generation whose first draw gave the only item: the target was MaxItems
\* and budget was left, but every later draw failed
C28_Witness ==
  LET built == buildItemPool(dataset, config, config.maxCoinValue)
  IN  /\ GenerateReturned
      /\ config.maxCoinValue > 0
      /\ config.itemCountRange[1] = MaxItems
      /\ built.totalGenerateCount + built.totalPremadeCount > 0
      /\ Len(result.items) = 1
      /\ result.totalValue < config.maxCoinValue

C30_QualitiesOnlyOnEnhanced ==
  \A it \in GeneratedHeld :
    /\ it.magicQualities # <<>> =>
         /\ isWeapon(it.baseItem) \/ isArmor(it.baseItem)
         /\ it.enhancementBonus >= 1
    /\ isMundaneItem(it.baseItem) =>
         /\ it.enhancementBonus = 0
         /\ it.magicQualities = <<>>
         /\ it.totalCost = CostOrZero(it.baseItem.cost)
    /\ \A j, k \in 1..Len(it.magicQualities) :
         j # k => it.magicQualities[j] # it.magicQualities[k]

\* an enhanced weapon or armor carrying two qualities is held
C30_Witness ==
  \E it \in GeneratedHeld :
    /\ Len(it.magicQualities) >= 2
    /\ it.enhancementBonus >= 1
    /\ canBeEnhanced(it.baseItem)

====
